---- MODULE Spec2Model ----
(***************************************************************************)
(* Model of cvefeed/nvdjson/interfaces.go: the NVD JSON feed adapter       *)
(* (cveItem, node), the CPE rule matcher node.MatchPlatform, the           *)
(* identifier binder node2CPE and the version comparator smartVerCmp.      *)
(*                                                                         *)
(* Go strings are sequences of byte values (48 = '0', 46 = '.', ...).      *)
(* Go slices indexed from 0 become sequences indexed from 1.               *)
(***************************************************************************)
EXTENDS Integers, Sequences, FiniteSets, TLC

VARIABLES
    v1, v2,          \* smartVerCmp: the two arguments
    s1, s2,          \* smartVerCmp: the remaining substrings of the loop
    cmpPc,           \* smartVerCmp: "idle", "loop" or "done"
    cmpRet,          \* smartVerCmp: the returned value
    cpeMatchList,    \* MatchPlatform: n.node.CPEMatch of the receiver
    platform,        \* MatchPlatform: the platform argument
    requireVersion,  \* MatchPlatform: the requireVersion argument
    matchPc,         \* MatchPlatform: "idle", "call" or "done"
    matchRet,        \* MatchPlatform: the returned value
    raw,             \* the raw feed record handed to newCveItem
    item,            \* the *cveItem newCveItem returned; <<>> before construction
    heap,            \* the wfn.Attributes objects allocated by wfn.Parse
    parses,          \* number of wfn.Parse calls made for each rule of a root node
    cur,             \* the LogicalTest a caller holds; <<>> when it holds none
    out,             \* the value the last accessor call returned
    readers,         \* the MatchPlatform calls in progress, one per goroutine
    queries          \* number of MatchPlatform calls started

cmpVars == <<v1, v2, s1, s2, cmpPc, cmpRet>>
matchVars == <<cpeMatchList, platform, requireVersion, matchPc, matchRet>>
itemVars == <<raw, item, heap, parses, cur, out, readers, queries>>
vars == <<cmpVars, matchVars, itemVars>>

(***************************************************************************)
(* Bounds of the model                                                     *)
(***************************************************************************)
MaxLen == 3          \* longest version string given to smartVerCmp

Chars == {48, 49, 57, 46, 97}             \* '0' '1' '9' '.' 'a'
Strings(n) == UNION {[1..k -> Chars] : k \in 0..n}

Min(S) == CHOOSE x \in S : \A y \in S : x <= y

(***************************************************************************)
(* smartVerCmp and parseVerParts                                           *)
(***************************************************************************)
IsDigit(b) == ~(b < 48 \/ b > 57)

\* the predicate handed to strings.IndexFunc: printable, not digit, not letter
IsPunct(b) ==
    b >= 33 /\ b <= 126 /\
    ~((b > 47 /\ b < 58) \/ (b > 64 /\ b < 91) \/ (b > 96 /\ b < 123))

\* the for loop of parseVerParts: number of leading digit bytes
DigitRun(v) ==
    LET stop == {i \in 1..Len(v) : ~IsDigit(v[i])}
    IN  IF stop = {} THEN Len(v) ELSE Min(stop) - 1

\* strings.IndexFunc(v, punctuation): 0-based index of the first hit, or -1
IndexPunct(v) ==
    LET hit == {i \in 1..Len(v) : IsPunct(v[i])}
    IN  IF hit = {} THEN -1 ELSE Min(hit) - 1

\* returns <<num, cmpTo, skip>>
parseVerParts(v) ==
    LET num == DigitRun(v)
    IN  IF num = Len(v) THEN <<num, num, num>>
        ELSE LET skip == IndexPunct(v)
             IN  IF skip = -1 THEN <<num, Len(v), Len(v)>>
                 ELSE <<num, skip, skip + 1>>

\* strings.Compare: lexicographic comparison of byte strings
RECURSIVE StringsCompare(_, _)
StringsCompare(a, b) ==
    IF a = <<>> /\ b = <<>> THEN 0
    ELSE IF a = <<>> THEN -1
    ELSE IF b = <<>> THEN 1
    ELSE IF Head(a) < Head(b) THEN -1
    ELSE IF Head(a) > Head(b) THEN 1
    ELSE StringsCompare(Tail(a), Tail(b))

\* one pass through the body of the for loop of smartVerCmp
CmpBody(a, b) ==
    LET p1 == parseVerParts(a)
        p2 == parseVerParts(b)
        cmp == StringsCompare(SubSeq(a, 1, p1[2]), SubSeq(b, 1, p2[2]))
    IN  IF p1[1] > p2[1] THEN [ret |-> TRUE, val |-> 1, s1 |-> a, s2 |-> b]
        ELSE IF p2[1] > p1[1] THEN [ret |-> TRUE, val |-> -1, s1 |-> a, s2 |-> b]
        ELSE IF cmp # 0 THEN [ret |-> TRUE, val |-> cmp, s1 |-> a, s2 |-> b]
        ELSE [ret |-> FALSE, val |-> 0,
              s1 |-> SubSeq(a, p1[3] + 1, Len(a)),
              s2 |-> SubSeq(b, p2[3] + 1, Len(b))]

\* "everything is equal so far, the longest wins"
LongestWinsSkewed(a, b) == IF Len(a) >= Len(b) THEN 1 ELSE -1
LongestWins(a, b) ==
    IF Len(a) > Len(b) THEN 1
    ELSE IF Len(b) > Len(a) THEN -1
    ELSE 0

RECURSIVE CmpLoop(_, _, _, _)
CmpLoop(a, b, r1, r2) ==
    IF Len(r1) > 0 /\ Len(r2) > 0
    THEN LET step == CmpBody(r1, r2)
         IN  IF step.ret THEN step.val ELSE CmpLoop(a, b, step.s1, step.s2)
    ELSE LongestWins(a, b)

smartVerCmp(a, b) == CmpLoop(a, b, a, b)

(***************************************************************************)
(* wfn: the attribute values and primitives the matcher calls.  An         *)
(* identifier carries a product (standing for every non-version            *)
(* attribute) and a version.  A raw URI is its sequence of fields: the     *)
(* empty string has none, a well-formed URI has a product and a version    *)
(* field, where "*" binds to ANY and "-" to NA.                            *)
(***************************************************************************)
ANY == <<>>                                \* wfn.Any
NA == <<45>>                               \* wfn.NA, "-"

Parse(uri) ==
    IF Len(uri) = 2
    THEN [err |-> FALSE,
          cpe |-> [Product |-> IF uri[1] = <<42>> THEN ANY ELSE uri[1],
                   Version |-> IF uri[2] = <<42>> THEN ANY ELSE uri[2]]]
    ELSE [err |-> TRUE, cpe |-> [Product |-> ANY, Version |-> ANY]]

MatchAttr(s, t) == s = ANY \/ t = ANY \/ s = t

Match(src, tgt) ==
    MatchAttr(src.Product, tgt.Product) /\ MatchAttr(src.Version, tgt.Version)

RECURSIVE StripSlashes(_)
StripSlashes(s) ==
    IF s = <<>> THEN <<>>
    ELSE IF Head(s) = 92 THEN StripSlashes(Tail(s))
    ELSE <<Head(s)>> \o StripSlashes(Tail(s))

(***************************************************************************)
(* node2CPE on a cpeMatch wrapper whose wfname is still nil                *)
(***************************************************************************)
Uri(cpeNode) ==
    IF cpeNode.Cpe23Uri = <<>> THEN cpeNode.Cpe22Uri ELSE cpeNode.Cpe23Uri

node2CPE(cpeNode) == Parse(Uri(cpeNode))

(***************************************************************************)
(* node.MatchPlatform                                                      *)
(***************************************************************************)
HasBound(cpeNode) ==
    \/ cpeNode.VersionStartIncluding # <<>>
    \/ cpeNode.VersionStartExcluding # <<>>
    \/ cpeNode.VersionEndIncluding # <<>>
    \/ cpeNode.VersionEndExcluding # <<>>

\* lines 178-183: the version override and the requireVersion filter
ForceVersion(cpeNode, cpe, reqVersion) ==
    IF HasBound(cpeNode)
    THEN [skip |-> FALSE, cpe |-> [cpe EXCEPT !.Version = ANY]]
    ELSE IF reqVersion /\ cpe.Version = ANY
    THEN [skip |-> TRUE, cpe |-> cpe]
    ELSE [skip |-> FALSE, cpe |-> cpe]

\* Decide with the exclusive lower bound taken as inclusive
DecideStartInclusive(cpeNode, cpe, plat) ==
    IF ~Match(cpe, plat) THEN "continue"
    ELSE IF plat.Version = ANY \/ plat.Version = NA THEN "true"
    ELSE IF ~HasBound(cpeNode) THEN "true"
    ELSE IF cpe.Version = NA THEN "false"
    ELSE LET ver == StripSlashes(plat.Version)
         IN  IF /\ cpeNode.VersionStartIncluding # <<>>
                /\ smartVerCmp(ver, cpeNode.VersionStartIncluding) < 0
             THEN "continue"
             ELSE IF /\ cpeNode.VersionStartExcluding # <<>>
                     /\ smartVerCmp(ver, cpeNode.VersionStartExcluding) < 0
             THEN "continue"
             ELSE IF /\ cpeNode.VersionEndIncluding # <<>>
                     /\ smartVerCmp(ver, cpeNode.VersionEndIncluding) > 0
             THEN "continue"
             ELSE IF /\ cpeNode.VersionEndExcluding # <<>>
                     /\ smartVerCmp(ver, cpeNode.VersionEndExcluding) >= 0
             THEN "continue"
             ELSE "true"

\* lines 184-212: "true" and "false" return, "continue" goes to the next rule
Decide(cpeNode, cpe, plat) ==
    IF ~Match(cpe, plat) THEN "continue"
    ELSE IF plat.Version = ANY \/ plat.Version = NA THEN "true"
    ELSE IF ~HasBound(cpeNode) THEN "true"
    ELSE IF cpe.Version = NA THEN "false"
    ELSE LET ver == StripSlashes(plat.Version)
         IN  IF /\ cpeNode.VersionStartIncluding # <<>>
                /\ smartVerCmp(ver, cpeNode.VersionStartIncluding) < 0
             THEN "continue"
             ELSE IF /\ cpeNode.VersionStartExcluding # <<>>
                     /\ smartVerCmp(ver, cpeNode.VersionStartExcluding) <= 0
             THEN "continue"
             ELSE IF /\ cpeNode.VersionEndIncluding # <<>>
                     /\ smartVerCmp(ver, cpeNode.VersionEndIncluding) > 0
             THEN "continue"
             ELSE IF /\ cpeNode.VersionEndExcluding # <<>>
                     /\ smartVerCmp(ver, cpeNode.VersionEndExcluding) >= 0
             THEN "continue"
             ELSE "true"

\* LoopBody returning false from the call when the rule does not resolve
LoopBodyAbortOnError(cpeNode, plat, reqVersion) ==
    LET r == node2CPE(cpeNode)
    IN  IF r.err THEN "false"
        ELSE LET f == ForceVersion(cpeNode, r.cpe, reqVersion)
             IN  IF f.skip THEN "continue" ELSE Decide(cpeNode, f.cpe, plat)

\* the body of the loop over n.node.CPEMatch, for one rule
LoopBody(cpeNode, plat, reqVersion) ==
    LET r == node2CPE(cpeNode)
    IN  IF r.err THEN "continue"
        ELSE LET f == ForceVersion(cpeNode, r.cpe, reqVersion)
             IN  IF f.skip THEN "continue" ELSE Decide(cpeNode, f.cpe, plat)

RECURSIVE MatchPlatform(_, _, _)
MatchPlatform(cpeMatches, plat, reqVersion) ==
    IF cpeMatches = <<>> THEN FALSE
    ELSE LET b == LoopBody(Head(cpeMatches), plat, reqVersion)
         IN  IF b = "true" THEN TRUE
             ELSE IF b = "false" THEN FALSE
             ELSE MatchPlatform(Tail(cpeMatches), plat, reqVersion)

(***************************************************************************)
(* The raw record (jsonschema).  A pointer is <<>> when nil and <<x>> when *)
(* it points to x.  Scores are in tenths.                                  *)
(***************************************************************************)
IsNil(p) == p = <<>>
Ref(x) == <<x>>
Deref(p) == p[1]

\* for _, ls := range lss of getLangStr, started with s
RECURSIVE LangLoop(_, _)
LangLoop(lss, s) ==
    IF lss = <<>> THEN s
    ELSE IF IsNil(Head(lss)) THEN LangLoop(Tail(lss), s)
    ELSE IF Deref(Head(lss)).Lang = "en" THEN Deref(Head(lss)).Value
    ELSE LangLoop(Tail(lss), Deref(Head(lss)).Value)

getLangStr(lss) == LangLoop(lss, "")

(***************************************************************************)
(* The heap of wfn.Attributes objects.  Address 0 is the nil pointer; a    *)
(* cell is <<>> when free.                                                 *)
(***************************************************************************)
Alloc(hp, obj) ==
    LET free == {a \in 1..Len(hp) : hp[a] = <<>>}
    IN  IF free = {} THEN [heap |-> Append(hp, <<obj>>), addr |-> Len(hp) + 1]
        ELSE [heap |-> [hp EXCEPT ![Min(free)] = <<obj>>], addr |-> Min(free)]

\* an object that nothing refers to any more is reclaimed
Release(hp, a) == [hp EXCEPT ![a] = <<>>]

(***************************************************************************)
(* newNode and newCveItem                                                  *)
(***************************************************************************)
\* &node{node: child}
BareNode(json) == [node |-> json, nvdcommonChildren |-> <<>>, wfnCPEs |-> <<>>]

\* the loop of newNode over n.node.CPEMatch
RECURSIVE BindRules(_, _, _)
BindRules(cpeMatches, hp, cpes) ==
    IF cpeMatches = <<>> THEN [heap |-> hp, cpes |-> cpes]
    ELSE LET r == node2CPE(Head(cpeMatches))
         IN  IF r.err THEN BindRules(Tail(cpeMatches), hp, Append(cpes, 0))
             ELSE LET a == Alloc(hp, r.cpe)
                  IN  BindRules(Tail(cpeMatches), a.heap, Append(cpes, a.addr))

newNode(json, hp) ==
    LET b == BindRules(json.CPEMatch, hp, <<>>)
    IN  [n |-> [node |-> json,
                nvdcommonChildren |->
                    [i \in 1..Len(json.Children) |-> BareNode(json.Children[i])],
                wfnCPEs |-> b.cpes],
         heap |-> b.heap]

\* the loop of newCveItem over Configurations.Nodes
RECURSIVE NewNodes(_, _, _)
NewNodes(jsons, hp, nodes) ==
    IF jsons = <<>> THEN [heap |-> hp, nodes |-> nodes]
    ELSE LET r == newNode(Head(jsons), hp)
         IN  NewNodes(Tail(jsons), r.heap, Append(nodes, r.n))

newCveItem(json, hp) ==
    LET r == NewNodes(Deref(json.Configurations).Nodes, hp, <<>>)
    IN  [item |-> [cveItem |-> json, configNodes |-> r.nodes], heap |-> r.heap]

(***************************************************************************)
(* The accessors of cveItem and node.  A nil pointer dereference panics;   *)
(* otherwise the call returns a string, a float64 (in tenths), a []string  *)
(* or a []*wfn.Attributes.                                                 *)
(***************************************************************************)
NoResult == [panic |-> FALSE, str |-> "", num |-> 0, strs |-> <<>>, cpes |-> <<>>]
Panics == [NoResult EXCEPT !.panic = TRUE]
ReturnsString(x) == [NoResult EXCEPT !.str = x]
ReturnsFloat(x) == [NoResult EXCEPT !.num = x]
ReturnsStrings(x) == [NoResult EXCEPT !.strs = x]
ReturnsCPEs(x) == [NoResult EXCEPT !.cpes = x]

CVEID(i) ==
    IF IsNil(i.cveItem.CVE) THEN Panics
    ELSE IF IsNil(Deref(i.cveItem.CVE).CVEDataMeta) THEN Panics
    ELSE ReturnsString(Deref(Deref(i.cveItem.CVE).CVEDataMeta).ID)

RECURSIVE CweLoop(_, _)
CweLoop(pts, cwes) ==
    IF pts = <<>> THEN cwes
    ELSE IF IsNil(Head(pts)) THEN CweLoop(Tail(pts), cwes)
    ELSE CweLoop(Tail(pts), Append(cwes, getLangStr(Deref(Head(pts)).Description)))

ProblemTypes(i) ==
    IF \/ IsNil(i.cveItem.CVE)
       \/ IsNil(Deref(i.cveItem.CVE).CVEDataMeta)
       \/ Deref(Deref(i.cveItem.CVE).CVEDataMeta).ID = ""
    THEN ReturnsStrings(<<>>)
    ELSE IF IsNil(Deref(i.cveItem.CVE).Problemtype) THEN ReturnsStrings(<<>>)
    ELSE ReturnsStrings(CweLoop(Deref(Deref(i.cveItem.CVE).Problemtype).ProblemtypeData, <<>>))

Description(i) ==
    IF IsNil(i.cveItem.CVE) THEN Panics
    ELSE IF IsNil(Deref(i.cveItem.CVE).Description) THEN Panics
    ELSE LET data == Deref(Deref(i.cveItem.CVE).Description).DescriptionData
         IN  IF data = <<>> THEN ReturnsString("")
             ELSE IF IsNil(Head(data)) THEN Panics
             ELSE ReturnsString(Deref(Head(data)).Value)

CVSS20base(i) ==
    IF /\ ~IsNil(i.cveItem.Impact)
       /\ ~IsNil(Deref(i.cveItem.Impact).BaseMetricV2)
       /\ ~IsNil(Deref(Deref(i.cveItem.Impact).BaseMetricV2).CVSSV2)
    THEN ReturnsFloat(Deref(Deref(Deref(i.cveItem.Impact).BaseMetricV2).CVSSV2).BaseScore)
    ELSE ReturnsFloat(0)

CVSS30base(i) ==
    IF /\ ~IsNil(i.cveItem.Impact)
       /\ ~IsNil(Deref(i.cveItem.Impact).BaseMetricV3)
       /\ ~IsNil(Deref(Deref(i.cveItem.Impact).BaseMetricV3).CVSSV3)
    THEN ReturnsFloat(Deref(Deref(Deref(i.cveItem.Impact).BaseMetricV3).CVSSV3).BaseScore)
    ELSE ReturnsFloat(0)

Config(i) == i.configNodes

InnerTests(n) == n.nvdcommonChildren

\* the slice of pointers CPEs returns, each pointer shown with what it points to
CPEs(n, hp) ==
    [k \in 1..Len(n.wfnCPEs) |-> IF n.wfnCPEs[k] = 0 THEN <<>> ELSE hp[n.wfnCPEs[k]]]

(***************************************************************************)
(* Inputs of the matcher                                                   *)
(***************************************************************************)
MaxRules == 2        \* longest CPEMatch list of a node

V19 == <<49, 46, 57>>                      \* "1.9"
V20 == <<50, 46, 48>>                      \* "2.0"
V25 == <<50, 46, 53>>                      \* "2.5"
V25esc == <<50, 92, 46, 53>>               \* "2\.5"
V30 == <<51, 46, 48>>                      \* "3.0"
ProdA == <<97>>                            \* "a"
ProdB == <<98>>                            \* "b"
Star == <<42>>                             \* "*"

\* <<Cpe23Uri, Cpe22Uri>>: malformed, both empty, legacy only, and well-formed
UriPairs ==
    { <<<<ProdA>>, <<>>>>,
      <<<<>>, <<>>>>,
      <<<<>>, <<ProdA, V25>>>>,
      <<<<ProdA, Star>>, <<>>>>,
      <<<<ProdA, NA>>, <<ProdB, Star>>>>,
      <<<<ProdA, V20>>, <<>>>>,
      <<<<ProdB, Star>>, <<>>>> }

MkRule(u, si, se, ei, ee) ==
    [Cpe23Uri |-> u[1], Cpe22Uri |-> u[2],
     VersionStartIncluding |-> si, VersionStartExcluding |-> se,
     VersionEndIncluding |-> ei, VersionEndExcluding |-> ee]

BoundValues == {<<>>, V20, V30}

\* every combination of the four bounds
AllRules ==
    {MkRule(u, si, se, ei, ee) :
        u \in UriPairs, si \in BoundValues, se \in BoundValues,
        ei \in BoundValues, ee \in BoundValues}

\* the rules that lists of several rules are made of
ListRules ==
    {MkRule(u, si, <<>>, <<>>, ee) :
        u \in UriPairs, si \in {<<>>, V20}, ee \in {<<>>, V30}}

RuleLists ==
    {<<r>> : r \in AllRules} \cup UNION {[1..k -> ListRules] : k \in 0..MaxRules}

Platforms ==
    {[Product |-> ProdA, Version |-> v] : v \in {ANY, NA, V19, V20, V25, V25esc, V30}}

MaxDepth == 3        \* levels of a raw configuration tree
MaxKids == 2         \* most children of a raw node
MaxReaders == 2      \* goroutines calling MatchPlatform
MaxQueries == 2      \* MatchPlatform calls started on a record

RuleBad == MkRule(<<<<ProdA>>, <<>>>>, <<>>, <<>>, <<>>, <<>>)
RuleRange == MkRule(<<<<ProdA, V25>>, <<>>>>, V20, <<>>, <<>>, V30)
RuleNARange == MkRule(<<<<ProdB, NA>>, <<>>>>, <<>>, V20, <<>>, <<>>)
RuleFixed == MkRule(<<<<>>, <<ProdA, Star>>>>, <<>>, <<>>, <<>>, <<>>)

MkNode(children, cpeMatches) ==
    [Operator |-> "OR", Negate |-> FALSE,
     Children |-> children, CPEMatch |-> cpeMatches]

NodeRuleLists == {<<>>, <<RuleBad, RuleRange>>}

LeafNodes == {MkNode(<<>>, rl) : rl \in NodeRuleLists}

\* raw nodes of at most d levels; only the first child has children itself
RECURSIVE RawNodes(_)
RawNodes(d) ==
    IF d <= 1 THEN LeafNodes
    ELSE LeafNodes \cup
         {MkNode(<<c>> \o rest, rl) :
             c \in RawNodes(d - 1),
             rest \in UNION {[1..k -> LeafNodes] : k \in 0..(MaxKids - 1)},
             rl \in NodeRuleLists}

LangStr(lang, value) == Ref([Lang |-> lang, Value |-> value])

RawCVEs ==
    {<<>>} \cup
    {Ref([CVEDataMeta |-> m, Description |-> d, Problemtype |-> pt]) :
        m \in {<<>>, Ref([ID |-> "CVE-2019-0001"]), Ref([ID |-> ""])},
        d \in {<<>>, Ref([DescriptionData |-> <<>>]),
               Ref([DescriptionData |-> <<LangStr("en", "overflow")>>])},
        pt \in {<<>>,
                Ref([ProblemtypeData |->
                       <<Ref([Description |->
                                <<LangStr("fr", "CWE-119-fr"), LangStr("en", "CWE-119")>>]),
                         <<>>>>])}}

RawImpacts ==
    {<<>>,
     Ref([BaseMetricV2 |-> <<>>,
          BaseMetricV3 |-> Ref([CVSSV3 |-> Ref([BaseScore |-> 98])])]),
     Ref([BaseMetricV2 |-> Ref([CVSSV2 |-> Ref([BaseScore |-> 75])]),
          BaseMetricV3 |-> Ref([CVSSV3 |-> <<>>])])}

RawItems ==
    {[CVE |-> c, Impact |-> im, Configurations |-> Ref([Nodes |-> <<n>>])] :
        c \in RawCVEs, im \in RawImpacts, n \in RawNodes(MaxDepth)}

\* records whose single root node is queried by the readers
QueriedItems ==
    {[CVE |-> <<>>, Impact |-> <<>>,
      Configurations |-> Ref([Nodes |-> <<MkNode(<<>>, rl)>>])] :
        rl \in {<<RuleRange>>, <<RuleBad, RuleRange>>, <<RuleNARange, RuleFixed>>}}

QueryPlatforms == {[Product |-> ProdA, Version |-> v] : v \in {V19, V25}}

\* the rules of the root nodes: <<root, rule>>
RuleIds(json) ==
    UNION {{<<k, i>> : i \in 1..Len(Deref(json.Configurations).Nodes[k].CPEMatch)} :
              k \in 1..Len(Deref(json.Configurations).Nodes)}

IdleReader ==
    [pc |-> "idle", k |-> 0, i |-> 0, cpe |-> 0,
     plat |-> [Product |-> ANY, Version |-> ANY], req |-> FALSE, ret |-> FALSE]

NoCall == [fn |-> "", res |-> NoResult]

ItemIdle ==
    /\ raw = [CVE |-> <<>>, Impact |-> <<>>, Configurations |-> <<>>]
    /\ item = <<>>
    /\ heap = <<>>
    /\ parses = <<>>
    /\ cur = <<>>
    /\ out = NoCall
    /\ readers = [r \in 1..MaxReaders |-> IdleReader]
    /\ queries = 0

MatchIdle ==
    /\ cpeMatchList = <<>>
    /\ platform = [Product |-> ANY, Version |-> ANY]
    /\ requireVersion = FALSE
    /\ matchPc = "idle"
    /\ matchRet = FALSE

CmpIdle ==
    /\ v1 = <<>> /\ v2 = <<>> /\ s1 = <<>> /\ s2 = <<>>
    /\ cmpPc = "idle"
    /\ cmpRet = 0

MatchInit ==
    /\ cpeMatchList \in RuleLists
    /\ platform \in Platforms
    /\ requireVersion \in BOOLEAN
    /\ matchPc = "call"
    /\ matchRet = FALSE
    /\ CmpIdle
    /\ ItemIdle

\* one call n.MatchPlatform(platform, requireVersion) on a non-nil node
CallMatchPlatform ==
    /\ matchPc = "call"
    /\ matchRet' = MatchPlatform(cpeMatchList, platform, requireVersion)
    /\ matchPc' = "done"
    /\ UNCHANGED <<cpeMatchList, platform, requireVersion, cmpVars, itemVars>>

SpecMatch == MatchInit /\ [][CallMatchPlatform]_vars

(***************************************************************************)
(* smartVerCmp as a state machine, one action per loop iteration           *)
(***************************************************************************)
CmpInit ==
    /\ v1 \in Strings(MaxLen)
    /\ v2 \in Strings(MaxLen)
    /\ s1 = v1
    /\ s2 = v2
    /\ cmpPc = "loop"
    /\ cmpRet = 0
    /\ MatchIdle
    /\ ItemIdle

CmpIterate ==
    /\ cmpPc = "loop"
    /\ Len(s1) > 0 /\ Len(s2) > 0
    /\ LET step == CmpBody(s1, s2)
       IN  /\ s1' = step.s1
           /\ s2' = step.s2
           /\ cmpRet' = step.val
           /\ cmpPc' = IF step.ret THEN "done" ELSE "loop"
    /\ UNCHANGED <<v1, v2, matchVars, itemVars>>

CmpFinish ==
    /\ cmpPc = "loop"
    /\ ~(Len(s1) > 0 /\ Len(s2) > 0)
    /\ cmpRet' = LongestWins(v1, v2)
    /\ cmpPc' = "done"
    /\ UNCHANGED <<v1, v2, s1, s2, matchVars, itemVars>>

CmpNext == CmpIterate \/ CmpFinish

SpecCmp == CmpInit /\ [][CmpNext]_vars
(***************************************************************************)
(* A record: construction, then accessor calls and tree traversal          *)
(***************************************************************************)
ItemInit(raws) ==
    /\ raw \in raws
    /\ item = <<>>
    /\ heap = <<>>
    /\ parses = [id \in RuleIds(raw) |-> 0]
    /\ cur = <<>>
    /\ out = NoCall
    /\ readers = [r \in 1..MaxReaders |-> IdleReader]
    /\ queries = 0
    /\ CmpIdle
    /\ MatchIdle

\* item := newCveItem(raw)
Construct ==
    /\ item = <<>>
    /\ LET r == newCveItem(raw, heap)
       IN  /\ item' = Ref(r.item)
           /\ heap' = r.heap
    /\ parses' = [id \in DOMAIN parses |-> parses[id] + 1]
    /\ UNCHANGED <<raw, cur, out, readers, queries, cmpVars, matchVars>>

Constructed == item # <<>> /\ ~out.res.panic

Call(fn, r) ==
    /\ Constructed
    /\ out' = [fn |-> fn, res |-> r]
    /\ UNCHANGED <<raw, item, heap, parses, cur, readers, queries, cmpVars, matchVars>>

CallCVEID == Call("CVEID", CVEID(Deref(item)))
CallProblemTypes == Call("ProblemTypes", ProblemTypes(Deref(item)))
CallDescription == Call("Description", Description(Deref(item)))
CallCVSS20base == Call("CVSS20base", CVSS20base(Deref(item)))
CallCVSS30base == Call("CVSS30base", CVSS30base(Deref(item)))

\* the caller takes a root from item.Config()
CallConfig ==
    /\ Constructed
    /\ \E k \in 1..Len(Config(Deref(item))) : cur' = Ref(Config(Deref(item))[k])
    /\ UNCHANGED <<raw, item, heap, parses, out, readers, queries, cmpVars, matchVars>>

\* the caller descends to a child from cur.InnerTests()
CallInnerTests ==
    /\ Constructed
    /\ cur # <<>>
    /\ \E j \in 1..Len(InnerTests(Deref(cur))) : cur' = Ref(InnerTests(Deref(cur))[j])
    /\ UNCHANGED <<raw, item, heap, parses, out, readers, queries, cmpVars, matchVars>>

CallCPEs ==
    /\ cur # <<>>
    /\ Call("CPEs", ReturnsCPEs(CPEs(Deref(cur), heap)))

Next ==
    \/ Construct
    \/ CallCVEID
    \/ CallProblemTypes
    \/ CallDescription
    \/ CallCVSS20base
    \/ CallCVSS30base
    \/ CallConfig
    \/ CallInnerTests
    \/ CallCPEs

Init == ItemInit(RawItems)

Spec == Init /\ [][Next]_vars

(***************************************************************************)
(* Concurrent MatchPlatform calls on the root node of a constructed        *)
(* record, one step per statement group of the loop body                   *)
(***************************************************************************)
RootNode(k) == Config(Deref(item))[k]

\* line 172, node2CPE(&cpeMatch{cpeMatch: cpeNode}): the wrapper is new, its
\* wfname is nil, so the URI is parsed into a new object
ResolveCached(n, i, hp) ==
    IF n.wfnCPEs[i] # 0
    THEN [err |-> FALSE, heap |-> hp, addr |-> n.wfnCPEs[i]]
    ELSE [err |-> TRUE, heap |-> hp, addr |-> 0]
ResolveTarget(n, i, hp) ==
    LET r == node2CPE(n.node.CPEMatch[i])
    IN  IF r.err THEN [err |-> TRUE, heap |-> hp, addr |-> 0]
        ELSE LET a == Alloc(hp, r.cpe)
             IN  [err |-> FALSE, heap |-> a.heap, addr |-> a.addr]

Available == {r \in 1..MaxReaders : readers[r].pc \in {"idle", "done"}}

BeginMatch(r) ==
    /\ Constructed
    /\ queries < MaxQueries
    /\ Available # {} /\ r = Min(Available)
    /\ \E k \in 1..Len(Config(Deref(item))), p \in QueryPlatforms, q \in BOOLEAN :
          readers' = [readers EXCEPT ![r] =
                         [pc |-> "resolve", k |-> k, i |-> 1, cpe |-> 0,
                          plat |-> p, req |-> q, ret |-> FALSE]]
    /\ queries' = queries + 1
    /\ UNCHANGED <<raw, item, heap, parses, cur, out, cmpVars, matchVars>>

\* the range loop is exhausted: return false
LoopExit(r) ==
    /\ readers[r].pc = "resolve"
    /\ readers[r].i > Len(RootNode(readers[r].k).node.CPEMatch)
    /\ readers' = [readers EXCEPT ![r].pc = "done", ![r].ret = FALSE]
    /\ UNCHANGED <<raw, item, heap, parses, cur, out, queries, cmpVars, matchVars>>

\* lines 172-175
StepResolve(r) ==
    /\ readers[r].pc = "resolve"
    /\ readers[r].i <= Len(RootNode(readers[r].k).node.CPEMatch)
    /\ LET res == ResolveTarget(RootNode(readers[r].k), readers[r].i, heap)
       IN  /\ heap' = res.heap
           /\ readers' = IF res.err
                         THEN [readers EXCEPT ![r].i = @ + 1]
                         ELSE [readers EXCEPT ![r].pc = "force", ![r].cpe = res.addr]
    /\ parses' = [parses EXCEPT ![<<readers[r].k, readers[r].i>>] = @ + 1]
    /\ UNCHANGED <<raw, item, cur, out, queries, cmpVars, matchVars>>

\* lines 178-183
StepForce(r) ==
    /\ readers[r].pc = "force"
    /\ LET cpeNode == RootNode(readers[r].k).node.CPEMatch[readers[r].i]
           f == ForceVersion(cpeNode, Deref(heap[readers[r].cpe]), readers[r].req)
       IN  IF f.skip
           THEN /\ heap' = Release(heap, readers[r].cpe)
                /\ readers' = [readers EXCEPT ![r].pc = "resolve",
                                              ![r].i = @ + 1, ![r].cpe = 0]
           ELSE /\ heap' = [heap EXCEPT ![readers[r].cpe] = Ref(f.cpe)]
                /\ readers' = [readers EXCEPT ![r].pc = "decide"]
    /\ UNCHANGED <<raw, item, parses, cur, out, queries, cmpVars, matchVars>>

\* lines 184-212
StepDecide(r) ==
    /\ readers[r].pc = "decide"
    /\ LET cpeNode == RootNode(readers[r].k).node.CPEMatch[readers[r].i]
           d == Decide(cpeNode, Deref(heap[readers[r].cpe]), readers[r].plat)
       IN  readers' =
               IF d = "continue"
               THEN [readers EXCEPT ![r].pc = "resolve", ![r].i = @ + 1, ![r].cpe = 0]
               ELSE [readers EXCEPT ![r].pc = "done", ![r].cpe = 0,
                                    ![r].ret = (d = "true")]
    /\ heap' = Release(heap, readers[r].cpe)
    /\ UNCHANGED <<raw, item, parses, cur, out, queries, cmpVars, matchVars>>

\* a goroutine reads n.CPEs() of the root while others match
ReadCPEs ==
    /\ Constructed
    /\ out' = [fn |-> "CPEs", res |-> ReturnsCPEs(CPEs(RootNode(1), heap))]
    /\ UNCHANGED <<raw, item, heap, parses, cur, readers, queries, cmpVars, matchVars>>

NextQuery ==
    \/ Construct
    \/ ReadCPEs
    \/ \E r \in 1..MaxReaders :
          BeginMatch(r) \/ LoopExit(r) \/ StepResolve(r) \/ StepForce(r) \/ StepDecide(r)

SpecQuery == ItemInit(QueriedItems) /\ [][NextQuery]_vars


(***************************************************************************)
(* Properties of the matcher (SpecMatch)                                   *)
(***************************************************************************)
SingleRule == matchPc = "done" /\ Len(cpeMatchList) = 1

\* a single resolving rule with a bound, raw version not NA, whose target
\* with the version forced to ANY structurally matches the platform
RangeRuleCase ==
    /\ SingleRule
    /\ ~node2CPE(cpeMatchList[1]).err
    /\ HasBound(cpeMatchList[1])
    /\ node2CPE(cpeMatchList[1]).cpe.Version # NA
    /\ Match([node2CPE(cpeMatchList[1]).cpe EXCEPT !.Version = ANY], platform)

AllPresentBoundsPass(r, v) ==
    /\ r.VersionStartIncluding # <<>> => smartVerCmp(v, r.VersionStartIncluding) >= 0
    /\ r.VersionStartExcluding # <<>> => smartVerCmp(v, r.VersionStartExcluding) > 0
    /\ r.VersionEndIncluding # <<>> => smartVerCmp(v, r.VersionEndIncluding) <= 0
    /\ r.VersionEndExcluding # <<>> => smartVerCmp(v, r.VersionEndExcluding) < 0

\* C1: a single resolving range rule whose target structurally matches the
\* platform matches iff the platform version is ANY or NA, or every present
\* bound passes on the escape-stripped platform version.
C1_RangeRuleMatchesIffBoundsPass ==
    RangeRuleCase =>
        (matchRet <=>
            \/ platform.Version = ANY
            \/ platform.Version = NA
            \/ AllPresentBoundsPass(cpeMatchList[1], StripSlashes(platform.Version)))

C1_Witness ==
    /\ RangeRuleCase
    /\ platform.Version = V25esc
    /\ cpeMatchList[1].VersionStartExcluding = V20
    /\ cpeMatchList[1].VersionEndIncluding = V30
    /\ cpeMatchList[1].VersionEndExcluding = V30
    /\ matchRet = TRUE

\* C2: the result over a rule list is the OR of the results over each rule
\* taken alone, hence the same for every permutation of the list.
C2_ListIsOrOfRules ==
    matchPc = "done" =>
        /\ matchRet <=>
             \E i \in 1..Len(cpeMatchList) :
                 MatchPlatform(<<cpeMatchList[i]>>, platform, requireVersion)
        /\ \A f \in Permutations(1..Len(cpeMatchList)) :
             MatchPlatform([i \in 1..Len(cpeMatchList) |-> cpeMatchList[f[i]]],
                           platform, requireVersion) = matchRet

C2_Witness ==
    /\ matchPc = "done"
    /\ Len(cpeMatchList) = 2
    /\ node2CPE(cpeMatchList[1]).err
    /\ ~node2CPE(cpeMatchList[2]).err
    /\ HasBound(cpeMatchList[2])
    /\ platform.Version = V25
    /\ matchRet = TRUE

\* C3: a rule whose target resolves with version NA and which declares a
\* bound never matches a platform with a concrete version.
C3_NATargetRangeNeverMatches ==
    ( /\ SingleRule
      /\ ~node2CPE(cpeMatchList[1]).err
      /\ node2CPE(cpeMatchList[1]).cpe.Version = NA
      /\ HasBound(cpeMatchList[1])
      /\ platform.Version # ANY
      /\ platform.Version # NA )
    => matchRet = FALSE

(***************************************************************************)
(* Properties of the comparator (SpecCmp)                                  *)
(***************************************************************************)
\* the unsigned integer a leading digit run stands for, 0 when there is none
RECURSIVE DigitsValue(_)
DigitsValue(d) ==
    IF d = <<>> THEN 0
    ELSE 10 * DigitsValue(SubSeq(d, 1, Len(d) - 1)) + (d[Len(d)] - 48)

RunValue(s) == DigitsValue(SubSeq(s, 1, DigitRun(s)))

\* C4: at each segment the leading digit runs are compared by their integer
\* value, and when the values differ the larger value decides the result.
C4_NumericValueDecides ==
    [][(CmpIterate /\ RunValue(s1) # RunValue(s2)) =>
          /\ cmpPc' = "done"
          /\ cmpRet' = IF RunValue(s1) > RunValue(s2) THEN 1 ELSE -1]_vars

\* C5: compare(a, b) = -compare(b, a), compare(v, v) = 0, and the result is
\* one of -1, 0, 1.
C5_Antisymmetric ==
    cmpPc = "done" =>
        /\ cmpRet \in {-1, 0, 1}
        /\ cmpRet = 0 - smartVerCmp(v2, v1)
        /\ v1 = v2 => cmpRet = 0

C5_Witness ==
    /\ cmpPc = "done"
    /\ v1 = <<49, 46, 57>>
    /\ v2 = <<49, 46, 49>>
    /\ cmpRet = 1

(***************************************************************************)
(* Properties of a constructed record (Spec)                               *)
(***************************************************************************)
\* C6: every node reached through children() has exactly one child node per
\* raw child, in the raw order.
C6_ChildrenMirrorRawTree ==
    cur # <<>> =>
        /\ Len(InnerTests(Deref(cur))) = Len(Deref(cur).node.Children)
        /\ \A j \in 1..Len(Deref(cur).node.Children) :
              /\ j <= Len(InnerTests(Deref(cur)))
              /\ InnerTests(Deref(cur))[j].node = Deref(cur).node.Children[j]

\* the identifiers of the rules that resolve, in rule order
RECURSIVE ResolvedIdentifiers(_)
ResolvedIdentifiers(cpeMatches) ==
    IF cpeMatches = <<>> THEN <<>>
    ELSE IF node2CPE(Head(cpeMatches)).err THEN ResolvedIdentifiers(Tail(cpeMatches))
    ELSE <<Ref(node2CPE(Head(cpeMatches)).cpe)>> \o ResolvedIdentifiers(Tail(cpeMatches))

\* C7: leafIdentifiers() holds exactly the identifiers of the node's rules
\* that resolved, in rule order, with no entry for a rule that failed.
C7_LeafIdentifiersOmitUnresolved ==
    [][CallCPEs => out'.res.cpes = ResolvedIdentifiers(Deref(cur).node.CPEMatch)]_vars

\* C9: no accessor fails, and an accessor whose section is absent from the
\* raw record returns its default.
C9_AccessorsReturnDefaults ==
    /\ ~out.res.panic
    /\ (out.fn = "CVEID" /\ (IsNil(raw.CVE) \/ IsNil(Deref(raw.CVE).CVEDataMeta)))
          => out.res.str = ""
    /\ (out.fn = "Description" /\ (IsNil(raw.CVE) \/ IsNil(Deref(raw.CVE).Description)))
          => out.res.str = ""
    /\ (out.fn = "ProblemTypes" /\ (IsNil(raw.CVE) \/ IsNil(Deref(raw.CVE).Problemtype)))
          => out.res.strs = <<>>
    /\ (out.fn \in {"CVSS20base", "CVSS30base"} /\ IsNil(raw.Impact))
          => out.res.num = 0

(***************************************************************************)
(* Properties of concurrent queries (SpecQuery)                            *)
(***************************************************************************)
\* what readers can observe of the record: the raw record, the node tree
\* and the identifiers its nodes hand out
Published ==
    IF item = <<>> THEN <<>>
    ELSE <<raw, item,
           [k \in 1..Len(Config(Deref(item))) |-> CPEs(RootNode(k), heap)]>>

\* C8: after construction no accessor call and no matchLeaf call writes the
\* record or its node tree, whatever the interleaving, and each matchLeaf
\* call returns what it returns when it runs alone.
C8_NoWriteAfterConstruction ==
    /\ [][item # <<>> => Published' = Published]_vars
    /\ [](\A r \in 1..MaxReaders :
            readers[r].pc = "done" =>
                readers[r].ret = MatchPlatform(RootNode(readers[r].k).node.CPEMatch,
                                               readers[r].plat, readers[r].req))

C8_Witness ==
    /\ item # <<>>
    /\ \E r, q \in 1..MaxReaders :
          /\ readers[r].pc = "done" /\ readers[r].ret = TRUE
          /\ readers[q].pc = "decide"
          /\ RootNode(readers[q].k).node.CPEMatch[readers[q].i] = RuleRange
          /\ Deref(heap[readers[q].cpe]).Version = ANY
    /\ out.fn = "CPEs"
    /\ \E k \in 1..Len(out.res.cpes) : out.res.cpes[k] = Ref([Product |-> ProdA, Version |-> V25])

\* C10: over construction followed by any number of queries, the parsing
\* primitive is invoked at most once per rule.
C10_ParsedAtMostOncePerRule ==
    \A id \in DOMAIN parses : parses[id] <= 1

====
